---- MODULE Spec2Model ----
(***************************************************************************)
(* ghstats: the issue snapshot (scripts/ghlib.py), its JSON codec, the     *)
(* fetch / update commands (scripts/download.py), the report generator     *)
(* (scripts/generate_data.py) and the earlier fetch / update commands      *)
(* (download.py at the top of the repository).                             *)
(*                                                                         *)
(* Encodings.  Python's None is the empty tuple and a present optional     *)
(* value x is <<x>>.  A datetime is a natural number of clock ticks;       *)
(* TicksPerSecond ticks make one second, so a datetime that is not a       *)
(* multiple of TicksPerSecond carries a fraction of a second.  A timestamp *)
(* string is a record [t, fmt]: fmt says how the text is written           *)
(* ("Z", "+00:00", "frac" for fractional seconds, "empty" for "", "bad"    *)
(* for text that is no timestamp).  A Python dict is the sequence of its   *)
(* entries [k, v] in insertion order.  A call that may raise returns       *)
(* [ok |-> TRUE, val |-> v] or [ok |-> FALSE, err |-> "<exception>"].      *)
(***************************************************************************)
EXTENDS Integers, Sequences, FiniteSets, TLC

VARIABLES
    now,                 \* the true clock, in ticks
    remote,              \* the repository on the server: remote[n] is issue n
    file,                \* the data file: None, or <<json>>
    pc,                  \* where the running command is
    cmd,                 \* the command being run: "fetch" or "update"
    current_dt,          \* ctx.obj["current-dt"]
    issue_set,           \* update: issue_set (the working IssueSet's dict)
    original_issue_set,  \* update: original_issue_set
    record,              \* update: record (None before the load)
    outdated,            \* update: outdated (the enumerated IssueSet's dict)
    cursor,              \* fetch_issueset_data: how many of to_fetch are done
    fetched,             \* the records fetch_issue_data returned, in order
    summary,             \* the lines of "Summary of changes"
    result,              \* how the last command or call ended
    output               \* the report generator's output file: None, or <<datasets>>

vars == <<now, remote, file, pc, cmd, current_dt, issue_set, original_issue_set,
          record, outdated, cursor, fetched, summary, result, output>>

----------------------------------------------------------------------------
(* Bounds of the model *)

MaxIssues == 2

MaxTime == 4

MaxNumber == 2

MaxBatch == 2

MaxDay == 3

(* Length of a day of the model, in seconds *)
SecondsPerDay == 2

(* Resolution of the clock: ticks per second (the part of a datetime that
   replace(microsecond=0) drops and "%S" cannot carry) *)
TicksPerSecond == 2

----------------------------------------------------------------------------
(* Optional values and results *)

None == <<>>

Some(x) == <<x>>

Ok(v) == [ok |-> TRUE, val |-> v]

Err(e) == [ok |-> FALSE, err |-> e]

Trunc(t) == (t \div TicksPerSecond) * TicksPerSecond

----------------------------------------------------------------------------
(* Timestamps: strptime / isoformat *)

ParsedFormats == {"Z", "+00:00"}

\* a variant that also swallows unparsable text
convert_iso8601_string_lenient(string) ==
    IF string = None \/ string[1].fmt = "empty" THEN Ok(None)
    ELSE IF string[1].fmt \in ParsedFormats THEN Ok(Some(string[1].t))
    ELSE Ok(None)

convert_iso8601_string(string) ==
    IF string = None \/ string[1].fmt = "empty" THEN Ok(None)
    ELSE IF string[1].fmt \in ParsedFormats THEN Ok(Some(string[1].t))
    ELSE Err("ValueError")

\* an isoformat() without the UTC offset, as a naive datetime gives
isoformat_naive(dt) == [t |-> dt, fmt |-> "bad"]

isoformat(dt) ==
    IF dt % TicksPerSecond = 0 THEN [t |-> dt, fmt |-> "+00:00"]
    ELSE [t |-> dt, fmt |-> "frac"]

----------------------------------------------------------------------------
(* Issue: the normalizing constructor *)

IssueFields ==
    {"number", "title", "labels", "is_pr", "created_at", "created_by",
     "closed_at", "closed_by"}

RequiredIssueFields ==
    {"number", "title", "labels", "is_pr", "created_at", "created_by"}

\* the attrs-generated __attrs_init__: required fields, defaults, converters
attrs_init(kw) ==
    IF ~(RequiredIssueFields \subseteq DOMAIN kw) \/ ~(DOMAIN kw \subseteq IssueFields)
    THEN Err("TypeError")
    ELSE LET ca == convert_iso8601_string(kw.created_at)
             cl == IF "closed_at" \in DOMAIN kw
                   THEN convert_iso8601_string(kw.closed_at) ELSE Ok(None)
         IN  IF ~ca.ok THEN ca
             ELSE IF ~cl.ok THEN cl
             ELSE Ok([number     |-> kw.number,
                      title      |-> kw.title,
                      labels     |-> kw.labels,
                      is_pr      |-> kw.is_pr,
                      created_at |-> ca.val,
                      created_by |-> kw.created_by,
                      closed_at  |-> cl.val,
                      closed_by  |-> IF "closed_by" \in DOMAIN kw
                                     THEN kw.closed_by ELSE None])

Issue_init(kwargs) ==
    LET K == DOMAIN kwargs
        api_format == "login" \in K \/ "created_by" \notin K
    IN  IF ~api_format THEN attrs_init(kwargs)
        ELSE IF "user" \notin K THEN Err("KeyError")
        ELSE IF kwargs.user = None THEN Err("TypeError")
        ELSE IF "labels" \notin K THEN Err("KeyError")
        ELSE LET created_by == kwargs.user[1].login
                 closed_by  == IF "closed_by" \in K /\ kwargs.closed_by # None
                               THEN Some(kwargs.closed_by[1].login) ELSE None
                 is_pr      == "pull_request" \in K \/ "merged_at" \in K
                 labels     == [j \in 1..Len(kwargs.labels) |-> kwargs.labels[j].name]
                 kept       == (IssueFields \cap K) \ {"closed_by", "labels"}
                 filtered   == [f \in kept |-> kwargs[f]]
             IN  IF kept \cap {"created_by", "is_pr"} # {} THEN Err("TypeError")
                 ELSE attrs_init(
                        [f \in kept \cup {"created_by", "closed_by", "is_pr", "labels"} |->
                            CASE f = "created_by" -> created_by
                              [] f = "closed_by"  -> closed_by
                              [] f = "is_pr"      -> is_pr
                              [] f = "labels"     -> labels
                              [] OTHER            -> filtered[f]])

closed(i) == i.closed_at # None

----------------------------------------------------------------------------
(* dict, in insertion order *)

DictKeys(d) == {d[j].k : j \in 1..Len(d)}

DictIndex(d, k) == CHOOSE j \in 1..Len(d) : d[j].k = k

DictGet(d, k) == d[DictIndex(d, k)].v

DictValues(d) == [j \in 1..Len(d) |-> d[j].v]

DictSet(d, k, v) ==
    IF k \in DictKeys(d)
    THEN [d EXCEPT ![DictIndex(d, k)] = [k |-> k, v |-> v]]
    ELSE Append(d, [k |-> k, v |-> v])

RECURSIVE DictUpdate(_, _)
DictUpdate(d, other) ==
    IF other = <<>> THEN d
    ELSE DictUpdate(DictSet(d, Head(other).k, Head(other).v), Tail(other))

\* the mapping a dict denotes (dict equality ignores insertion order)
AsMap(d) == [k \in DictKeys(d) |-> DictGet(d, k)]

----------------------------------------------------------------------------
(* IssueSet: the state is the dict _issues *)

RECURSIVE IssueSet_init(_)
IssueSet_init(issues) ==
    IF issues = <<>> THEN <<>>
    ELSE LET rest == IssueSet_init(SubSeq(issues, 1, Len(issues) - 1))
             i    == issues[Len(issues)]
         IN  DictSet(rest, i.number, i)

IssueSet_copy(d) == d

IssueSet_add(d, i) == DictSet(d, i.number, i)

IssueSet_extend(d, issues) == DictUpdate(d, IssueSet_init(issues))

IssueSet_contains(d, n) == n \in DictKeys(d)

IssueSet_getitem(d, n) ==
    IF n \in DictKeys(d) THEN Ok(DictGet(d, n)) ELSE Err("KeyError")

\* a store that keeps the entry it already holds
IssueSet_setitem_keep_first(d, issue_number, issue_obj) ==
    IF issue_number \in DictKeys(d) THEN d ELSE DictSet(d, issue_number, issue_obj)

\* a store that piles the records up like a list
IssueSet_setitem_append(d, issue_number, issue_obj) ==
    Append(d, [k |-> issue_number, v |-> issue_obj])

IssueSet_setitem(d, issue_number, issue_obj) == DictSet(d, issue_number, issue_obj)

IssueSet_delitem(d, issue_number) ==
    IF issue_number \notin DictKeys(d) THEN Err("KeyError")
    ELSE Ok(SelectSeq(d, LAMBDA e : e.k # issue_number))

RECURSIVE from_json_parse(_)
from_json_parse(issues) ==
    IF issues = <<>> THEN Ok(<<>>)
    ELSE LET first == Issue_init(Head(issues))
         IN  IF ~first.ok THEN first
             ELSE LET rest == from_json_parse(Tail(issues))
                  IN  IF ~rest.ok THEN rest ELSE Ok(<<first.val>> \o rest.val)

from_json(issues) ==
    LET parsed == from_json_parse(issues)
    IN  IF ~parsed.ok THEN parsed ELSE Ok(IssueSet_init(parsed.val))

----------------------------------------------------------------------------
(* save / load *)

RECURSIVE InsertByNumber(_, _)
InsertByNumber(s, i) ==
    IF s = <<>> THEN <<i>>
    ELSE IF s[Len(s)].number <= i.number THEN Append(s, i)
    ELSE Append(InsertByNumber(SubSeq(s, 1, Len(s) - 1), i), s[Len(s)])

RECURSIVE sorted_by_number(_)
sorted_by_number(s) ==
    IF s = <<>> THEN <<>>
    ELSE InsertByNumber(sorted_by_number(SubSeq(s, 1, Len(s) - 1)), s[Len(s)])

serialize(value) == IF value = None THEN None ELSE Some(isoformat(value[1]))

asdict_issue(i) ==
    [number     |-> i.number,
     title      |-> i.title,
     labels     |-> i.labels,
     is_pr      |-> i.is_pr,
     created_at |-> serialize(i.created_at),
     created_by |-> i.created_by,
     closed_at  |-> serialize(i.closed_at),
     closed_by  |-> i.closed_by]

asdict_record(r) ==
    [repo         |-> [owner |-> r.repo.owner, name |-> r.repo.name],
     last_updated |-> Some(isoformat(r.last_updated)),
     version      |-> r.version]

\* a save that writes the records in the order the dict holds them
save_unsorted(issues, rec) ==
    [issues |-> [j \in 1..Len(issues) |-> asdict_issue(DictValues(issues)[j])],
     record |-> asdict_record(rec)]

save(issues, rec) ==
    LET s == sorted_by_number(DictValues(issues))
    IN  [issues |-> [j \in 1..Len(s) |-> asdict_issue(s[j])],
         record |-> asdict_record(rec)]

DefaultVersion == 1

Record_init(repo, last_updated) ==
    [repo |-> repo, last_updated |-> last_updated, version |-> DefaultVersion]

Repo_init(kw) ==
    IF DOMAIN kw = {"owner", "name"}
    THEN Ok([owner |-> kw.owner, name |-> kw.name]) ELSE Err("TypeError")

\* a load that builds what it can and reports no error
load_partial(data) ==
    LET no_meta == "record" \notin DOMAIN data
                   \/ "last_updated" \notin DOMAIN data.record
                   \/ "repo" \notin DOMAIN data.record
        issues  == IF "issues" \in DOMAIN data THEN from_json(data.issues) ELSE Ok(<<>>)
    IN  IF no_meta \/ ~issues.ok
        THEN Ok([issues |-> IF issues.ok THEN issues.val ELSE <<>>, record |-> None])
        ELSE LET lu == convert_iso8601_string_lenient(data.record.last_updated)
                 rp == Repo_init(data.record.repo)
             IN  IF lu.val = None \/ ~rp.ok
                 THEN Ok([issues |-> issues.val, record |-> None])
                 ELSE Ok([issues |-> issues.val,
                          record |-> Some(Record_init(rp.val, lu.val[1]))])

load(data) ==
    IF "record" \notin DOMAIN data THEN Err("KeyError")
    ELSE IF "last_updated" \notin DOMAIN data.record THEN Err("KeyError")
    ELSE LET lu == convert_iso8601_string(data.record.last_updated)
         IN  IF ~lu.ok THEN lu
             ELSE IF lu.val = None THEN Err("AssertionError")
             ELSE IF "repo" \notin DOMAIN data.record THEN Err("KeyError")
             ELSE LET rp == Repo_init(data.record.repo)
                  IN  IF ~rp.ok THEN rp
                      ELSE IF "issues" \notin DOMAIN data THEN Err("KeyError")
                      ELSE LET issues == from_json(data.issues)
                           IN  IF ~issues.ok THEN issues
                               ELSE Ok([issues |-> issues.val,
                                        record |-> Some(Record_init(rp.val, lu.val[1]))])

----------------------------------------------------------------------------
(* The repository on the server, and what the API answers.  remote[n] is
   [number, is_pr, title, labels, user, created_at, closed_at, closed_by,
    first_closer, updated_at, mtime]: updated_at is what the server reports
   (whole seconds), mtime the true instant of the last modification. *)

TheRepo == [owner |-> "psf", name |-> "black"]

rest_time(t) == Some([t |-> t, fmt |-> "Z"])

rest_actor(a) == IF a = None THEN None ELSE Some([login |-> a[1]])

rest_common(r) ==
    [number     |-> r.number,
     title      |-> r.title,
     labels     |-> [j \in 1..Len(r.labels) |-> [name |-> r.labels[j]]],
     user       |-> rest_actor(r.user),
     state      |-> IF r.closed_at = None THEN "open" ELSE "closed",
     created_at |-> rest_time(r.created_at),
     updated_at |-> rest_time(r.updated_at),
     closed_at  |-> IF r.closed_at = None THEN None ELSE rest_time(r.closed_at[1])]

\* an entry of GET /repos/{owner}/{name}/issues (pull requests carry "pull_request")
rest_list_entry(r) ==
    IF r.is_pr THEN rest_common(r) @@ [pull_request |-> [url |-> "pulls"]]
    ELSE rest_common(r)

\* GET /repos/{owner}/{name}/issues/{number}
rest_issue(r) == rest_list_entry(r) @@ [closed_by |-> rest_actor(r.closed_by)]

\* GET /repos/{owner}/{name}/pulls/{number}: "merged_at", and no "closed_by"
rest_pull(r) == rest_common(r) @@ [merged_at |-> None]

\* a node of the GraphQL query ISSUES_QUERY
graphql_node(r) ==
    [number        |-> r.number,
     title         |-> r.title,
     labels        |-> [nodes |-> [j \in 1..Len(r.labels) |-> [name |-> r.labels[j]]]],
     author        |-> rest_actor(r.user),
     createdAt     |-> rest_time(r.created_at),
     closedAt      |-> IF r.closed_at = None THEN None ELSE rest_time(r.closed_at[1]),
     timelineItems |-> [nodes |-> IF r.first_closer = None THEN <<>>
                                  ELSE <<[actor |-> rest_actor(r.first_closer[1])]>>]]

\* Issue(**entry) for entry in a list: the first failure is the outcome
RECURSIVE parse_all(_)
parse_all(entries) ==
    IF entries = <<>> THEN Ok(<<>>)
    ELSE LET first == Issue_init(Head(entries))
         IN  IF ~first.ok THEN first
             ELSE LET rest == parse_all(Tail(entries))
                  IN  IF ~rest.ok THEN rest ELSE Ok(<<first.val>> \o rest.val)

----------------------------------------------------------------------------
(* scripts/download.py *)

get_current_datetime(clock) == Trunc(clock)

\* a "since" filter that leaves out the records changed in the watermark's second
enumerate_issues_exclusive(repo, last_updated) ==
    LET since   == Trunc(last_updated)
        Hit(r)  == r.updated_at > since
        entries == [j \in 1..Len(SelectSeq(repo, Hit)) |->
                        rest_list_entry(SelectSeq(repo, Hit)[j])]
        parsed  == parse_all(entries)
    IN  IF ~parsed.ok THEN parsed ELSE Ok(IssueSet_extend(<<>>, parsed.val))

enumerate_issues(repo, last_updated) ==
    LET since   == Trunc(last_updated)
        Hit(r)  == r.updated_at >= since
        entries == [j \in 1..Len(SelectSeq(repo, Hit)) |->
                        rest_list_entry(SelectSeq(repo, Hit)[j])]
        parsed  == parse_all(entries)
    IN  IF ~parsed.ok THEN parsed ELSE Ok(IssueSet_extend(<<>>, parsed.val))

get_user(key, n) == IF n[key] # None THEN n[key][1].login ELSE "ghost"

graphql_data(node, is_pr) ==
    [number     |-> node.number,
     title      |-> node.title,
     is_pr      |-> is_pr,
     created_at |-> node.createdAt,
     created_by |-> get_user("author", node),
     closed_at  |-> node.closedAt,
     closed_by  |-> IF node.closedAt # None /\ node.timelineItems.nodes # <<>>
                    THEN Some(get_user("actor", node.timelineItems.nodes[1]))
                    ELSE None,
     labels     |-> [j \in 1..Len(node.labels.nodes) |-> node.labels.nodes[j].name]]

RECURSIVE parse_graphql_issues_json(_, _)
parse_graphql_issues_json(edges, is_pr) ==
    IF edges = <<>> THEN Ok(<<>>)
    ELSE LET rest == parse_graphql_issues_json(SubSeq(edges, 1, Len(edges) - 1), is_pr)
             last == Issue_init(graphql_data(edges[Len(edges)], is_pr))
         IN  IF ~rest.ok THEN rest
             ELSE IF ~last.ok THEN last
             ELSE Ok(IssueSet_add(rest.val, last.val))

\* one pass of fetch_issues_graphql's loop over ("issues", "pullRequests")
fetch_kind_graphql(repo, issues, is_pr) ==
    LET Kind(r) == r.is_pr = is_pr
        found   == SelectSeq(repo, Kind)
        edges   == [j \in 1..Len(found) |-> graphql_node(found[j])]
        parsed  == parse_graphql_issues_json(edges, is_pr)
    IN  IF ~parsed.ok THEN parsed
        ELSE Ok(DictUpdate(issues, DictUpdate(<<>>, parsed.val)))

fetch_issue_data(repo, i) ==
    Issue_init(IF i.is_pr THEN rest_pull(repo[i.number]) ELSE rest_issue(repo[i.number]))

\* a loop that starts the container afresh with every record it fetches
fetch_issueset_step_fresh(container, issue) ==
    IssueSet_setitem(<<>>, issue.number, issue)

\* the body of fetch_issueset_data's loop
fetch_issueset_step(container, issue) ==
    IssueSet_setitem(container, issue.number, issue)

\* fetch_issueset_data over records already fetched
RECURSIVE merge_batch(_, _)
merge_batch(container, batch) ==
    IF batch = <<>> THEN container
    ELSE merge_batch(fetch_issueset_step(container, Head(batch)), Tail(batch))

\* returning the enumerated set instead of the container
fetch_issueset_result_to_fetch(to_fetch, container) == to_fetch

\* what fetch_issueset_data returns
fetch_issueset_result(to_fetch, container) == container

\* one line of "Summary of changes"
classify(original, working, i) ==
    IF ~IssueSet_contains(original, i.number) THEN "NEW"
    ELSE IF ~closed(DictGet(original, i.number)) /\ closed(i) THEN "CLOSED"
    ELSE "UPDATED"

summary_of_changes(original, working, outdated_set) ==
    [j \in 1..Len(outdated_set) |->
        [number |-> outdated_set[j].v.number,
         change |-> classify(original, working, outdated_set[j].v)]]

\* a watermark read from the clock when the file is saved
new_last_updated_at_save(ctx_current_dt, clock) == get_current_datetime(clock)

\* the last_updated of new_record
new_last_updated(ctx_current_dt, clock) == ctx_current_dt

----------------------------------------------------------------------------
(* The server: issues are created, edited, closed and reopened.  Every
   such event happens at an instant of its own, later than every reading
   of the clock made before it. *)

NewIssue(n, pr, t) ==
    [number       |-> n,
     is_pr        |-> pr,
     title        |-> "a",
     labels       |-> <<"bug">>,
     user         |-> Some("alice"),
     created_at   |-> Trunc(t),
     closed_at    |-> None,
     closed_by    |-> None,
     first_closer |-> None,
     updated_at   |-> Trunc(t),
     mtime        |-> t]

Touch(r, t) == [r EXCEPT !.updated_at = Trunc(t), !.mtime = t]

procVars == <<file, pc, cmd, current_dt, issue_set, original_issue_set, record,
              outdated, cursor, fetched, summary, result, output>>

RemoteCreate(pr) ==
    /\ now < MaxTime
    /\ Len(remote) < MaxIssues
    /\ now' = now + 1
    /\ remote' = Append(remote, NewIssue(Len(remote) + 1, pr, now'))
    /\ UNCHANGED procVars

RemoteEdit(n) ==
    /\ now < MaxTime
    /\ now' = now + 1
    /\ remote' = [remote EXCEPT ![n] =
                    Touch([@ EXCEPT !.title = IF @ = "a" THEN "b" ELSE "a"], now')]
    /\ UNCHANGED procVars

RemoteClose(n) ==
    /\ now < MaxTime
    /\ remote[n].closed_at = None
    /\ now' = now + 1
    /\ remote' = [remote EXCEPT ![n] =
                    Touch([@ EXCEPT !.closed_at = Some(Trunc(now')),
                                    !.closed_by = Some("bob"),
                                    !.first_closer =
                                        IF @ = None THEN Some(Some("bob")) ELSE @], now')]
    /\ UNCHANGED procVars

RemoteReopen(n) ==
    /\ now < MaxTime
    /\ remote[n].closed_at # None
    /\ now' = now + 1
    /\ remote' = [remote EXCEPT ![n] =
                    Touch([@ EXCEPT !.closed_at = None, !.closed_by = None], now')]
    /\ UNCHANGED procVars

----------------------------------------------------------------------------
(* The commands.  pc: "idle" (no command runs), "main" (main() has run),
   "graphql-issues", "graphql-prs" (fetch), "loaded", "fetching", "summary"
   (update), "save". *)

\* the process ends: its memory is gone, the file stays
Exit(how) ==
    /\ pc' = "idle"
    /\ cmd' = "none"
    /\ result' = how
    /\ current_dt' = 0
    /\ issue_set' = <<>>
    /\ original_issue_set' = <<>>
    /\ record' = None
    /\ outdated' = <<>>
    /\ cursor' = 0
    /\ fetched' = <<>>
    /\ summary' = <<>>

\* main(): the click group callback, run before either command
Main(c) ==
    /\ pc = "idle"
    /\ c = "update" => file # None
    /\ current_dt' = get_current_datetime(now)
    /\ cmd' = c
    /\ pc' = "main"
    /\ result' = Ok("running")
    /\ UNCHANGED <<output, now, remote, file, issue_set, original_issue_set, record, outdated,
                   cursor, fetched, summary>>

\* fetch: fetch_issues_graphql, first the issues ...
FetchIssues ==
    /\ pc = "main" /\ cmd = "fetch"
    /\ LET got == fetch_kind_graphql(remote, <<>>, FALSE)
       IN  IF got.ok
           THEN /\ issue_set' = got.val
                /\ pc' = "graphql-prs"
                /\ UNCHANGED <<cmd, current_dt, original_issue_set, record, outdated,
                               cursor, fetched, summary, result>>
           ELSE Exit(got)
    /\ UNCHANGED <<output, now, remote, file, output>>

\* ... then the pull requests, and ghlib.save(issues, record, output_path)
FetchPullRequests ==
    /\ pc = "graphql-prs"
    /\ LET got == fetch_kind_graphql(remote, issue_set, TRUE)
       IN  IF got.ok
           THEN /\ file' = Some(save(got.val, [repo         |-> TheRepo,
                                               last_updated |-> current_dt,
                                               version      |-> DefaultVersion]))
                /\ Exit(Ok("fetch saved"))
           ELSE Exit(got) /\ UNCHANGED file
    /\ UNCHANGED <<now, remote, output>>

\* update: ghlib.load(df), the copy original_issue_set, and
\* enumerate_issues(record.repo, fetcher, record.last_updated)
UpdateLoad ==
    /\ pc = "main" /\ cmd = "update"
    /\ LET got == load(file[1])
       IN  IF ~got.ok THEN Exit(got)
           ELSE LET listed == enumerate_issues(remote, got.val.record[1].last_updated)
                IN  IF ~listed.ok THEN Exit(listed)
                    ELSE IF listed.val = <<>> THEN Exit(Ok("nothing to update"))
                    ELSE /\ issue_set' = got.val.issues
                         /\ record' = got.val.record
                         /\ original_issue_set' = IssueSet_copy(got.val.issues)
                         /\ outdated' = listed.val
                         /\ pc' = "fetching"
                         /\ UNCHANGED <<cmd, current_dt, cursor, fetched, summary, result>>
    /\ UNCHANGED <<output, now, remote, file, output>>

\* a loop that writes the data file after every record it fetches
UpdateFetchOneSaving ==
    /\ pc = "fetching"
    /\ LET i   == outdated[cursor + 1].v
           got == fetch_issue_data(remote, i)
       IN  IF ~got.ok THEN Exit(got) /\ UNCHANGED file
           ELSE /\ issue_set' = fetch_issueset_step(issue_set, got.val)
                /\ file' = Some(save(issue_set', record[1]))
                /\ fetched' = Append(fetched, got.val)
                /\ cursor' = cursor + 1
                /\ pc' = IF cursor' = Len(outdated) THEN "summary" ELSE "fetching"
                /\ UNCHANGED <<cmd, current_dt, original_issue_set, record, outdated,
                               summary, result>>
    /\ UNCHANGED <<now, remote, output>>

\* update: one turn of fetch_issueset_data's loop
UpdateFetchOne ==
    /\ pc = "fetching"
    /\ LET i   == outdated[cursor + 1].v
           got == fetch_issue_data(remote, i)
       IN  IF ~got.ok THEN Exit(got)
           ELSE /\ issue_set' = fetch_issueset_step(issue_set, got.val)
                /\ fetched' = Append(fetched, got.val)
                /\ cursor' = cursor + 1
                /\ pc' = IF cursor' = Len(outdated) THEN "summary" ELSE "fetching"
                /\ UNCHANGED <<cmd, current_dt, original_issue_set, record, outdated,
                               summary, result>>
    /\ UNCHANGED <<output, now, remote, file, output>>

\* update: "Summary of changes" and new_record
UpdateSummary ==
    /\ pc = "summary"
    /\ summary' = summary_of_changes(original_issue_set, issue_set, outdated)
    /\ record' = Some([record[1] EXCEPT !.last_updated = new_last_updated(current_dt, now)])
    /\ pc' = "save"
    /\ UNCHANGED <<output, now, remote, file, cmd, current_dt, issue_set, original_issue_set,
                   outdated, cursor, fetched, result>>

\* update: ghlib.save(updated_issues, new_record, df)
UpdateSave ==
    /\ pc = "save"
    /\ file' = Some(save(fetch_issueset_result(outdated, issue_set), record[1]))
    /\ Exit(Ok("update saved"))
    /\ UNCHANGED <<now, remote, output>>

\* the places where a command waits for the server: fetch_issues_graphql,
\* enumerate_issues and fetch_issue_data
RequestPoints == {"main", "graphql-prs", "fetching"}

\* the command ends early: a request fails (resp.raise_for_status()) or the
\* process is interrupted; the exception leaves fetch / update
Abort(how) ==
    /\ pc # "idle"
    /\ how = "HTTPError" => pc \in RequestPoints
    /\ Exit(Err(how))
    /\ UNCHANGED <<now, remote, file, output>>

Init ==
    /\ now = 0
    /\ remote = <<>>
    /\ file = None
    /\ pc = "idle"
    /\ cmd = "none"
    /\ current_dt = 0
    /\ issue_set = <<>>
    /\ original_issue_set = <<>>
    /\ record = None
    /\ outdated = <<>>
    /\ cursor = 0
    /\ fetched = <<>>
    /\ summary = <<>>
    /\ result = Ok("none")
    /\ output = None

Next ==
    \/ \E pr \in BOOLEAN : RemoteCreate(pr)
    \/ \E n \in 1..Len(remote) : RemoteEdit(n)
    \/ \E n \in 1..Len(remote) : RemoteClose(n)
    \/ \E n \in 1..Len(remote) : RemoteReopen(n)
    \/ \E c \in {"fetch", "update"} : Main(c)
    \/ FetchIssues
    \/ FetchPullRequests
    \/ UpdateLoad
    \/ UpdateFetchOne
    \/ UpdateSummary
    \/ UpdateSave
    \/ \E how \in {"HTTPError", "KeyboardInterrupt"} : Abort(how)

Spec == Init /\ [][Next]_vars

----------------------------------------------------------------------------
(* download.py at the top of the repository: the earlier program, with the
   same two commands.  Its fetch lists the records over REST and re-fetches
   each into the listing itself; its update is the update above except for
   the record the summary compares with.  Its library is lib.py, whose
   IssueSet and Issue agree with ghlib's in every operation used here. *)

\* enumerate_issues(repo, fetcher, last_updated=None): no "since" without a watermark
top_enumerate_issues(repo, last_updated) ==
    IF last_updated # None THEN enumerate_issues(repo, last_updated[1])
    ELSE LET entries == [j \in 1..Len(repo) |-> rest_list_entry(repo[j])]
             parsed  == parse_all(entries)
         IN  IF ~parsed.ok THEN parsed ELSE Ok(IssueSet_extend(<<>>, parsed.val))

\* one line of "Summary of changes": issue_set is the container the fetch wrote into
top_classify(original_issue_set_, issue_set_, i) ==
    IF ~IssueSet_contains(original_issue_set_, i.number) THEN "NEW"
    ELSE IF ~closed(DictGet(issue_set_, i.number)) /\ closed(i) THEN "CLOSED"
    ELSE "UPDATED"

top_summary_of_changes(original_issue_set_, issue_set_, issues_to_update) ==
    [j \in 1..Len(issues_to_update) |->
        [number |-> issues_to_update[j].v.number,
         change |-> top_classify(original_issue_set_, issue_set_, issues_to_update[j].v)]]

\* fetch / update: last_updated = get_current_datetime(), before any request
TopStart(c) ==
    /\ pc = "idle"
    /\ c = "update" => file # None
    /\ current_dt' = get_current_datetime(now)
    /\ cmd' = c
    /\ pc' = "main"
    /\ result' = Ok("running")
    /\ UNCHANGED <<now, remote, file, issue_set, original_issue_set, record, outdated,
                   cursor, fetched, summary, output>>

\* fetch: issues = enumerate_issues(repo, fetcher)
TopFetchEnumerate ==
    /\ pc = "main" /\ cmd = "fetch"
    /\ LET listed == top_enumerate_issues(remote, None)
       IN  IF ~listed.ok THEN Exit(listed)
           ELSE /\ issue_set' = listed.val
                /\ outdated' = listed.val
                /\ record' = Some(Record_init(TheRepo, current_dt))
                /\ pc' = IF listed.val = <<>> THEN "save" ELSE "fetching"
                /\ UNCHANGED <<cmd, current_dt, original_issue_set, cursor, fetched,
                               summary, result>>
    /\ UNCHANGED <<now, remote, file, output>>

\* update: lib.load(df), the copy original_issue_set, and
\* enumerate_issues(record.repo, fetcher, last_updated=record.last_updated)
TopUpdateLoad ==
    /\ pc = "main" /\ cmd = "update"
    /\ LET got == load(file[1])
       IN  IF ~got.ok THEN Exit(got)
           ELSE LET listed == top_enumerate_issues(remote,
                                                   Some(got.val.record[1].last_updated))
                IN  IF ~listed.ok THEN Exit(listed)
                    ELSE IF listed.val = <<>> THEN Exit(Ok("nothing to update"))
                    ELSE /\ issue_set' = got.val.issues
                         /\ record' = got.val.record
                         /\ original_issue_set' = IssueSet_copy(got.val.issues)
                         /\ outdated' = listed.val
                         /\ pc' = "fetching"
                         /\ UNCHANGED <<cmd, current_dt, cursor, fetched, summary, result>>
    /\ UNCHANGED <<now, remote, file, output>>

\* one turn of fetch_issueset_data's loop, for fetch and for update
TopFetchOne ==
    /\ pc = "fetching"
    /\ LET i   == outdated[cursor + 1].v
           got == fetch_issue_data(remote, i)
       IN  IF ~got.ok THEN Exit(got)
           ELSE /\ issue_set' = fetch_issueset_step(issue_set, got.val)
                /\ fetched' = Append(fetched, got.val)
                /\ cursor' = cursor + 1
                /\ pc' = IF cursor' < Len(outdated) THEN "fetching"
                         ELSE IF cmd = "fetch" THEN "save" ELSE "summary"
                /\ UNCHANGED <<cmd, current_dt, original_issue_set, record, outdated,
                               summary, result>>
    /\ UNCHANGED <<now, remote, file, output>>

\* update: "Summary of changes" and new_record
TopUpdateSummary ==
    /\ pc = "summary"
    /\ summary' = top_summary_of_changes(original_issue_set, issue_set, outdated)
    /\ record' = Some([record[1] EXCEPT !.last_updated = current_dt])
    /\ pc' = "save"
    /\ UNCHANGED <<now, remote, file, cmd, current_dt, issue_set, original_issue_set,
                   outdated, cursor, fetched, result, output>>

\* lib.save(issues, record, output_path) / lib.save(updated_issues, new_record, df)
TopSave ==
    /\ pc = "save"
    /\ file' = Some(save(issue_set, record[1]))
    /\ Exit(Ok(IF cmd = "fetch" THEN "fetch saved" ELSE "update saved"))
    /\ UNCHANGED <<now, remote, output>>

TopNext ==
    \/ \E pr \in BOOLEAN : RemoteCreate(pr)
    \/ \E n \in 1..Len(remote) : RemoteEdit(n)
    \/ \E n \in 1..Len(remote) : RemoteClose(n)
    \/ \E n \in 1..Len(remote) : RemoteReopen(n)
    \/ \E c \in {"fetch", "update"} : TopStart(c)
    \/ TopFetchEnumerate
    \/ TopUpdateLoad
    \/ TopFetchOne
    \/ TopUpdateSummary
    \/ TopSave
    \/ \E how \in {"HTTPError", "KeyboardInterrupt"} : Abort(how)

SpecTop == Init /\ [][TopNext]_vars

----------------------------------------------------------------------------
(* scripts/generate_data.py: get_days *)

TicksPerDay == SecondsPerDay * TicksPerSecond

\* datetime.date()
date(dt) == dt \div TicksPerDay

\* a day enumeration that answers a missing record 1 with no days
get_days_empty_series(issues, clock) ==
    LET first == IssueSet_getitem(issues, 1)
    IN  IF ~first.ok THEN Ok(<<>>)
        ELSE LET sdate == date(first.val.created_at[1])
                 edate == date(clock)
             IN  Ok([j \in 1..(edate - sdate + 1) |-> sdate + j - 1])

get_days(issues, clock) ==
    LET first == IssueSet_getitem(issues, 1)
    IN  IF ~first.ok THEN first
        ELSE IF first.val.created_at = None THEN Err("AttributeError")
        ELSE LET sdate == date(first.val.created_at[1])
                 edate == date(clock)
             IN  Ok([j \in 1..(edate - sdate + 1) |-> sdate + j - 1])

----------------------------------------------------------------------------
(* The library on its own: a snapshot is built with IssueSet's operations,
   merged, saved, damaged on disk, loaded again, and given to get_days.
   Issue n of these inputs was created on day n - 1, as the server numbers
   issues in the order they are created. *)

LibIssue(n, is_closed) ==
    [number     |-> n,
     title      |-> "a",
     labels     |-> <<"bug">>,
     is_pr      |-> FALSE,
     created_at |-> Some((n - 1) * TicksPerDay + TicksPerSecond),
     created_by |-> "alice",
     closed_at  |-> IF is_closed THEN Some(n * TicksPerDay) ELSE None,
     closed_by  |-> IF is_closed THEN Some("bob") ELSE None]

LibIssues ==
    {LibIssue(n, c) : n \in 1..MaxNumber, c \in BOOLEAN}

RECURSIVE Batches(_)
Batches(len) ==
    IF len = 0 THEN {<<>>}
    ELSE Batches(len - 1)
         \cup {Append(b, i) : b \in {x \in Batches(len - 1) : Len(x) = len - 1},
                              i \in LibIssues}

\* Record(repo, last_updated): no caller passes a version
LibRecords ==
    {[repo |-> TheRepo, last_updated |-> t * TicksPerSecond, version |-> DefaultVersion] :
        t \in 0..1}

Damages ==
    {"no record", "no repo", "no owner", "no name", "no last_updated",
     "bad last_updated", "bad created_at", "bad closed_at"}

BadTime(kind) == Some([t |-> 0, fmt |-> kind])

Without(rec, key) == [f \in DOMAIN rec \ {key} |-> rec[f]]

Damage(data, how) ==
    CASE how = "no record" -> Without(data, "record")
      [] how = "no repo" -> [data EXCEPT !.record = Without(@, "repo")]
      [] how = "no owner" -> [data EXCEPT !.record.repo = Without(@, "owner")]
      [] how = "no name" -> [data EXCEPT !.record.repo = Without(@, "name")]
      [] how = "no last_updated" -> [data EXCEPT !.record = Without(@, "last_updated")]
      [] how = "bad last_updated" -> [data EXCEPT !.record.last_updated = BadTime("bad")]
      [] how = "bad created_at" ->
            [data EXCEPT !.issues[Len(data.issues)].created_at = BadTime("bad")]
      [] how = "bad closed_at" ->
            [data EXCEPT !.issues[1].closed_at = BadTime("frac")]

libFrame == <<cmd, current_dt, outdated, cursor, summary, output>>

LibInit ==
    /\ now = 0
    /\ remote = <<>>
    /\ file = None
    /\ pc = "built"
    /\ cmd = "none"
    /\ current_dt = 0
    /\ issue_set = <<>>
    /\ original_issue_set = <<>>
    /\ record \in {Some(r) : r \in LibRecords}
    /\ outdated = <<>>
    /\ cursor = 0
    /\ fetched = <<>>
    /\ summary = <<>>
    /\ result = Ok("none")
    /\ output = None

\* IssueSet.add
LibAdd(i) ==
    /\ pc = "built"
    /\ issue_set' = IssueSet_add(issue_set, i)
    /\ UNCHANGED <<now, remote, file, pc, original_issue_set, record, fetched, result>>
    /\ UNCHANGED libFrame

\* fetch_issueset_data with the batch already fetched
LibMerge(batch) ==
    /\ pc = "built"
    /\ original_issue_set' = IssueSet_copy(issue_set)
    /\ fetched' = batch
    /\ issue_set' = merge_batch(issue_set, batch)
    /\ pc' = "merged"
    /\ UNCHANGED <<now, remote, file, record, result>>
    /\ UNCHANGED libFrame

\* ghlib.save
LibSave ==
    /\ pc = "built"
    /\ file' = Some(save(issue_set, record[1]))
    /\ pc' = "saved"
    /\ UNCHANGED <<now, remote, issue_set, original_issue_set, record, fetched, result>>
    /\ UNCHANGED libFrame

\* the file is damaged on disk
LibDamage(how) ==
    /\ pc = "saved"
    /\ how \in {"bad created_at", "bad closed_at"} => file[1].issues # <<>>
    /\ file' = Some(Damage(file[1], how))
    /\ pc' = "damaged"
    /\ UNCHANGED <<now, remote, issue_set, original_issue_set, record, fetched, result>>
    /\ UNCHANGED libFrame

\* ghlib.load(df): what it returns or raises is in result
LibLoad ==
    /\ pc \in {"saved", "damaged"}
    /\ result' = load(file[1])
    /\ pc' = IF pc = "saved" THEN "reloaded" ELSE "loaded damaged"
    /\ UNCHANGED <<now, remote, file, issue_set, original_issue_set, record, fetched>>
    /\ UNCHANGED libFrame

\* get_days(issues), the clock reading t, no earlier than the records' creation
LibGetDays(t) ==
    /\ pc = "built"
    /\ \A j \in 1..Len(issue_set) : issue_set[j].v.created_at[1] <= t
    /\ now' = t
    /\ result' = get_days(issue_set, t)
    /\ pc' = "days"
    /\ UNCHANGED <<remote, file, issue_set, original_issue_set, record, fetched>>
    /\ UNCHANGED libFrame

\* the records of a server a single record is constructed from: the author
\* and the closer may be accounts that no longer exist (null in the answer)
WireRecords ==
    {[NewIssue(1, pr, TicksPerSecond) EXCEPT
        !.user = u,
        !.closed_at = IF c.closed THEN Some(2 * TicksPerSecond) ELSE None,
        !.closed_by = IF c.closed THEN c.by ELSE None,
        !.first_closer = IF c.closed THEN Some(c.by) ELSE None] :
      pr \in BOOLEAN, u \in {None, Some("alice")},
      c \in {[closed |-> FALSE, by |-> None],
             [closed |-> TRUE, by |-> None],
             [closed |-> TRUE, by |-> Some("bob")]}}

WireShapes == {"rest list entry", "rest record", "graphql node"}

\* one record built from what the server answers, in each wire shape
construct(shape, r) ==
    CASE shape = "rest list entry" -> Issue_init(rest_list_entry(r))
      [] shape = "rest record" -> fetch_issue_data(<<r>>, r)
      [] shape = "graphql node" ->
            LET parsed == parse_graphql_issues_json(<<graphql_node(r)>>, r.is_pr)
            IN  IF ~parsed.ok THEN parsed ELSE Ok(DictValues(parsed.val)[1])

\* Issue(**entry) / _parse_graphql_issues_json on one record of the server
LibConstruct(shape, r) ==
    /\ pc = "built"
    /\ issue_set = <<>>
    /\ remote' = <<r>>
    /\ cmd' = shape
    /\ result' = construct(shape, r)
    /\ pc' = "constructed"
    /\ UNCHANGED <<now, file, issue_set, original_issue_set, record, fetched,
                   current_dt, outdated, cursor, summary, output>>

----------------------------------------------------------------------------
(* scripts/generate_data.py.  A date is the number of its day, counted from
   the first day of the month Epoch; every month of the model has
   DaysPerMonth days, a year has twelve months. *)

DaysPerMonth == 2

MonthsPerYear == 12

Epoch == [year |-> 2020, month |-> 12]

\* date.year, date.month, date.day
date_year(d) == Epoch.year + ((d \div DaysPerMonth) + Epoch.month - 1) \div MonthsPerYear

date_month(d) == (((d \div DaysPerMonth) + Epoch.month - 1) % MonthsPerYear) + 1

date_day(d) == (d % DaysPerMonth) + 1

\* date(year, month, day)
date_new(year, month, day) ==
    ((year - Epoch.year) * MonthsPerYear + month - Epoch.month) * DaysPerMonth + day - 1

\* date.isoformat()
date_isoformat(d) == [year |-> date_year(d), month |-> date_month(d), day |-> date_day(d)]

\* (a, b) <= (c, d) on tuples
TupleLe(a, b) == a[1] < b[1] \/ (a[1] = b[1] /\ a[2] <= b[2])

\* the while loop of months_between
RECURSIVE months_loop(_, _, _, _)
months_loop(year, month, end_year, end_bound) ==
    IF ~TupleLe(<<year, month>>, <<end_year, end_bound>>) THEN <<>>
    ELSE <<date_new(year, month, 1)>>
         \o (IF month = MonthsPerYear
             THEN months_loop(year + 1, 1, end_year, end_bound)
             ELSE months_loop(year, month + 1, end_year, end_bound))

months_between(start_date, end_date) ==
    IF start_date > end_date THEN Err("ValueError")
    ELSE Ok(months_loop(date_year(start_date), date_month(start_date),
                        date_year(end_date), date_month(end_date) + 1))

get_months(issues, clock) ==
    LET first == IssueSet_getitem(issues, 1)
    IN  IF ~first.ok THEN first
        ELSE IF first.val.created_at = None THEN Err("AttributeError")
        ELSE months_between(date(first.val.created_at[1]), date(clock))

\* an open record counted on its closing day too
cal_open_issues_over_time_closing_day(days, issues) ==
    [k \in 1..Len(days) |->
        Cardinality({j \in 1..Len(issues) :
            /\ date(issues[j].created_at[1]) <= days[k]
            /\ \/ issues[j].closed_at = None
               \/ date(issues[j].closed_at[1]) >= days[k]})]

\* issues: the Issue objects in iteration order
cal_open_issues_over_time(days, issues) ==
    [k \in 1..Len(days) |->
        Cardinality({j \in 1..Len(issues) :
            /\ date(issues[j].created_at[1]) <= days[k]
            /\ \/ issues[j].closed_at = None
               \/ date(issues[j].closed_at[1]) > days[k]})]

NotPr(i) == ~i.is_pr

IsPr(i) == i.is_pr

IsClosed(i) == i.closed_at # None

get_rid_of_prs(issues) == IssueSet_init(SelectSeq(DictValues(issues), NotPr))

get_closed_issues(issues) == IssueSet_init(SelectSeq(DictValues(issues), IsClosed))

\* IssueSet([v for v in issues if label in v.labels])
with_label(issues, label) ==
    LET Has(i) == \E j \in 1..Len(i.labels) : i.labels[j] = label
    IN  IssueSet_init(SelectSeq(DictValues(issues), Has))

SeqMin(a, b) == IF a <= b THEN a ELSE b

timeseries_line_dataset(label, data, days) ==
    [label |-> label,
     data  |-> [k \in 1..SeqMin(Len(days), Len(data)) |->
                    [x |-> date_isoformat(days[k]), y |-> data[k]]]]

\* dict.get(k, default)
DictGetOr(d, k, default) == IF k \in DictKeys(d) THEN DictGet(d, k) ELSE default

\* issue_closers: one day's close_data_template
RECURSIVE close_data_template(_)
close_data_template(closers) ==
    IF closers = <<>> THEN <<>>
    ELSE DictSet(close_data_template(SubSeq(closers, 1, Len(closers) - 1)),
                 closers[Len(closers)].closed_by, <<0, 0>>)

prepare_data_collection(days, closers) ==
    [k \in 1..Len(days) |-> close_data_template(DictValues(closers))]

\* every close counted in the closer's own series
close_index_always_actor(i) == 1

\* index 0 of a pair is its first element: the closer's own count;
\* index 1 the count of self-closes
close_index(i) == IF i.closed_by # None /\ i.created_by = i.closed_by[1] THEN 2 ELSE 1

\* cal_closes_over_time: the inner loop, for one day
RECURSIVE closes_of_day(_, _, _)
closes_of_day(day_data, day, issues) ==
    IF issues = <<>> THEN day_data
    ELSE LET before == closes_of_day(day_data, day, SubSeq(issues, 1, Len(issues) - 1))
             i      == issues[Len(issues)]
         IN  IF date(i.closed_at[1]) <= day
             THEN DictSet(before, i.closed_by,
                          [DictGet(before, i.closed_by) EXCEPT ![close_index(i)] = @ + 1])
             ELSE before

\* a count of the closes of the day itself, not of the closes so far
RECURSIVE closes_on_day(_, _, _)
closes_on_day(day_data, day, issues) ==
    IF issues = <<>> THEN day_data
    ELSE LET before == closes_on_day(day_data, day, SubSeq(issues, 1, Len(issues) - 1))
             i      == issues[Len(issues)]
         IN  IF date(i.closed_at[1]) = day
             THEN DictSet(before, i.closed_by,
                          [DictGet(before, i.closed_by) EXCEPT ![close_index(i)] = @ + 1])
             ELSE before

cal_closes_over_time_per_day(template, days, issues) ==
    [k \in 1..Len(days) |-> closes_on_day(template[k], days[k], DictValues(issues))]

cal_closes_over_time(template, days, issues) ==
    [k \in 1..Len(days) |-> closes_of_day(template[k], days[k], DictValues(issues))]

IssueAuthor == Some("{issue-author}")

\* parse_closing_data: the loop over one day's items
RECURSIVE groups_of_items(_, _, _)
groups_of_items(groups, day_data, n) ==
    IF n = 0 THEN groups
    ELSE LET before == groups_of_items(groups, day_data, n - 1)
             user   == day_data[n].k
         IN  DictSet(before, user, Append(DictGetOr(before, user, <<>>), day_data[n].v[1]))

RECURSIVE SumSelf(_, _)
SumSelf(day_data, n) ==
    IF n = 0 THEN 0 ELSE SumSelf(day_data, n - 1) + day_data[n].v[2]

\* parse_closing_data: the loop over the days
RECURSIVE groups_of_days(_, _)
groups_of_days(data, n) ==
    IF n = 0 THEN <<>>
    ELSE LET before == groups_of_days(data, n - 1)
             users  == groups_of_items(before, data[n], Len(data[n]))
         IN  DictSet(users, IssueAuthor,
                     Append(DictGetOr(users, IssueAuthor, <<>>),
                            SumSelf(data[n], Len(data[n]))))

\* parse_closing_data that deletes nothing
parse_closing_data_keep_all(data) == groups_of_days(data, Len(data))

parse_closing_data(data) ==
    LET groups  == groups_of_days(data, Len(data))
        Kept(e) == \E j \in 1..Len(e.v) : e.v[j] # 0
    IN  SelectSeq(groups, Kept)

\* a delta against the first month instead of the previous one
cal_delta_over_time_first_baseline(open_issues_over_time) ==
    IF open_issues_over_time = <<>> THEN Err("IndexError")
    ELSE Ok([k \in 1..Len(open_issues_over_time) |->
                open_issues_over_time[k] - open_issues_over_time[1]])

\* a delta that drops the sign
cal_delta_over_time_unsigned(open_issues_over_time) ==
    IF open_issues_over_time = <<>> THEN Err("IndexError")
    ELSE Ok([k \in 1..Len(open_issues_over_time) |->
                LET d == open_issues_over_time[k] -
                         open_issues_over_time[IF k = 1 THEN 1 ELSE k - 1]
                IN  IF d < 0 THEN -d ELSE d])

\* baseline is the first count, then the count of the month before
cal_delta_over_time(open_issues_over_time) ==
    IF open_issues_over_time = <<>> THEN Err("IndexError")
    ELSE Ok([k \in 1..Len(open_issues_over_time) |->
                open_issues_over_time[k] -
                open_issues_over_time[IF k = 1 THEN 1 ELSE k - 1]])

\* the commands, after ghlib.load(data_file): what each computes from the
\* loaded issues and the days (months) enumerated, and the datasets it writes
open_series(label, issues, days) ==
    timeseries_line_dataset(label,
                            cal_open_issues_over_time(days, DictValues(issues)), days)

issue_counts_data(issues_noprs, days) ==
    Ok([days     |-> days,
        datasets |->
          <<open_series("open issues (total)", issues_noprs, days),
            open_series("open issues (bug)", with_label(issues_noprs, "T: bug"), days),
            open_series("open issues (docs)",
                        with_label(issues_noprs, "T: documentation"), days),
            open_series("open issues (feature)",
                        with_label(issues_noprs, "T: enhancement"), days),
            open_series("open issues (style)", with_label(issues_noprs, "T: style"),
                        days)>>])

issue_counts(issues, days) ==
    IF ~days.ok THEN days ELSE issue_counts_data(get_rid_of_prs(issues), days.val)

pr_counts_data(pulls_noprs, days) ==
    Ok([days |-> days, datasets |-> <<open_series("open PRs", pulls_noprs, days)>>])

pr_counts(issues, days) ==
    IF ~days.ok THEN days
    ELSE pr_counts_data(IssueSet_init(SelectSeq(DictValues(issues), IsPr)), days.val)

closing_datasets(parsed_data, days) ==
    Ok([days     |-> days,
        datasets |-> [j \in 1..Len(parsed_data) |->
                        timeseries_line_dataset(parsed_data[j].k, parsed_data[j].v, days)]])

issue_closers_data(closed_issues, days) ==
    closing_datasets(
        parse_closing_data(
            cal_closes_over_time(prepare_data_collection(days, closed_issues),
                                 days, closed_issues)),
        days)

issue_closers(issues, days) ==
    IF ~days.ok THEN days
    ELSE issue_closers_data(get_closed_issues(get_rid_of_prs(issues)), days.val)

delta_datasets(open_issues_over_time_withoutprs, ydata, months) ==
    IF ~ydata.ok THEN ydata
    ELSE Ok([days     |-> months,
             counts   |-> open_issues_over_time_withoutprs,
             datasets |-> <<timeseries_line_dataset("changes (issues)",
                                                    ydata.val, months)>>])

issue_deltas_data(open_issues_over_time_withoutprs, months) ==
    delta_datasets(open_issues_over_time_withoutprs,
                   cal_delta_over_time(open_issues_over_time_withoutprs), months)

issue_deltas(issues, months) ==
    IF ~months.ok THEN months
    ELSE issue_deltas_data(
             cal_open_issues_over_time(months.val, DictValues(get_rid_of_prs(issues))),
             months.val)

commands(c, issues, clock) ==
    CASE c = "issue-counts"  -> issue_counts(issues, get_days(issues, clock))
      [] c = "pull-counts"   -> pr_counts(issues, get_days(issues, clock))
      [] c = "issue-closers" -> issue_closers(issues, get_days(issues, clock))
      [] c = "issue-deltas"  -> issue_deltas(issues, get_months(issues, clock))

\* issues, record = ghlib.load(data_file), then the command's body
run_command(c, loaded, clock) ==
    IF ~loaded.ok THEN loaded ELSE commands(c, loaded.val.issues, clock)

----------------------------------------------------------------------------
(* The library's functions, continued *)

\* list(months_between(start_date, end_date)): start_date is kept in cursor
\* and end_date is the date the clock shows
LibMonthsBetween(s, e) ==
    /\ pc = "built"
    /\ issue_set = <<>>
    /\ cursor' = s
    /\ now' = e * TicksPerDay
    /\ cmd' = "months_between"
    /\ result' = months_between(s, e)
    /\ pc' = "months"
    /\ UNCHANGED <<remote, file, issue_set, original_issue_set, record, fetched,
                   current_dt, outdated, summary, output>>

LibNext ==
    \/ \E i \in LibIssues : LibAdd(i)
    \/ \E batch \in Batches(MaxBatch) : LibMerge(batch)
    \/ LibSave
    \/ \E how \in Damages : LibDamage(how)
    \/ LibLoad
    \/ \E t \in 0..(MaxDay * TicksPerDay) : LibGetDays(t)
    \/ \E shape \in WireShapes : \E r \in WireRecords : LibConstruct(shape, r)
    \/ \E s, e \in 0..MaxDay : LibMonthsBetween(s, e)

SpecLib == LibInit /\ [][LibNext]_vars

----------------------------------------------------------------------------
(* IssueSet on its own: two sets, issue_set and original_issue_set, and
   every operation of the class that builds or modifies one, called with
   any records and any numbers. *)

setFrame == <<now, remote, file, pc, cmd, current_dt, record, outdated, cursor,
              fetched, summary, output>>

\* IssueSet(issues) on a list of records
SetInit(issues) ==
    /\ issue_set' = IssueSet_init(issues)
    /\ result' = Ok("IssueSet")
    /\ UNCHANGED original_issue_set
    /\ UNCHANGED setFrame

\* original_issue_set = IssueSet(issue_set)
SetCopy ==
    /\ original_issue_set' = IssueSet_copy(issue_set)
    /\ result' = Ok("IssueSet")
    /\ UNCHANGED issue_set
    /\ UNCHANGED setFrame

\* issue_set.add(i)
SetAdd(i) ==
    /\ issue_set' = IssueSet_add(issue_set, i)
    /\ result' = Ok("add")
    /\ UNCHANGED original_issue_set
    /\ UNCHANGED setFrame

\* issue_set.extend(issues) on a list of records
SetExtend(issues) ==
    /\ issue_set' = IssueSet_extend(issue_set, issues)
    /\ result' = Ok("extend")
    /\ UNCHANGED original_issue_set
    /\ UNCHANGED setFrame

\* issue_set.extend(original_issue_set)
SetExtendSet ==
    /\ issue_set' = DictUpdate(issue_set, original_issue_set)
    /\ result' = Ok("extend")
    /\ UNCHANGED original_issue_set
    /\ UNCHANGED setFrame

\* issue_set[issue_number] = issue_obj
SetSetitem(issue_number, issue_obj) ==
    /\ issue_set' = IssueSet_setitem(issue_set, issue_number, issue_obj)
    /\ result' = Ok("__setitem__")
    /\ UNCHANGED original_issue_set
    /\ UNCHANGED setFrame

\* del issue_set[issue_number]
SetDelitem(issue_number) ==
    /\ result' = IssueSet_delitem(issue_set, issue_number)
    /\ issue_set' = IF result'.ok THEN result'.val ELSE issue_set
    /\ UNCHANGED original_issue_set
    /\ UNCHANGED setFrame

\* issue_set = IssueSet.from_json(issues) on the records of a data file
SetFromJson(issues) ==
    /\ result' = from_json([j \in 1..Len(issues) |-> asdict_issue(issues[j])])
    /\ issue_set' = IF result'.ok THEN result'.val ELSE issue_set
    /\ UNCHANGED original_issue_set
    /\ UNCHANGED setFrame

SetNext ==
    \/ \E issues \in Batches(MaxBatch) : SetInit(issues)
    \/ SetCopy
    \/ \E i \in LibIssues : SetAdd(i)
    \/ \E issues \in Batches(MaxBatch) : SetExtend(issues)
    \/ SetExtendSet
    \/ \E n \in 1..MaxNumber : \E i \in LibIssues : SetSetitem(n, i)
    \/ \E n \in 1..MaxNumber : SetDelitem(n)
    \/ \E issues \in Batches(MaxBatch) : SetFromJson(issues)

SpecSet == LibInit /\ [][SetNext]_vars

----------------------------------------------------------------------------
(* The report generator on its own: a data file is written from a snapshot
   and one of the four commands is run on it.  Issue n of these inputs was
   created on day n - 1 by "alice" (odd n) or "bob" (even n), and closed
   the same day, a month later or not at all, by "alice" or "bob". *)

GenLogins == <<"alice", "bob">>

GenIssue(n, pr, labels, closing) ==
    [number     |-> n,
     title      |-> "a",
     labels     |-> labels,
     is_pr      |-> pr,
     created_at |-> Some((n - 1) * TicksPerDay),
     created_by |-> GenLogins[2 - (n % 2)],
     closed_at  |-> IF closing = None THEN None
                    ELSE Some((n - 1 + closing[1].after) * TicksPerDay + TicksPerSecond),
     closed_by  |-> IF closing = None THEN None ELSE Some(closing[1].by)]

GenClosings ==
    {None} \cup {Some([after |-> a, by |-> GenLogins[b]]) : a \in {0, DaysPerMonth},
                                                           b \in 1..2}

GenIssues(n) ==
    {GenIssue(n, FALSE, l, c) : l \in {<<>>, <<"T: bug">>}, c \in GenClosings}
    \cup {GenIssue(n, TRUE, <<>>, c) : c \in GenClosings}

GenCommands == {"issue-counts", "pull-counts", "issue-closers", "issue-deltas"}

\* the last instant of day d
EndOfDay(d) == (d + 1) * TicksPerDay - 1

GenInit ==
    /\ now = 0
    /\ remote = <<>>
    /\ file = None
    /\ pc = "built"
    /\ cmd = "none"
    /\ current_dt = 0
    /\ issue_set = <<>>
    /\ original_issue_set = <<>>
    /\ record = Some(Record_init(TheRepo, 0))
    /\ outdated = <<>>
    /\ cursor = 0
    /\ fetched = <<>>
    /\ summary = <<>>
    /\ result = Ok("none")
    /\ output = None

genFrame == <<remote, current_dt, original_issue_set, record, outdated, cursor,
              fetched, summary>>

\* IssueSet.add, in the order the server numbers issues
GenAdd(i) ==
    /\ pc = "built"
    /\ \A n \in DictKeys(issue_set) : n < i.number
    /\ issue_set' = IssueSet_add(issue_set, i)
    /\ UNCHANGED <<now, file, pc, cmd, result, output>>
    /\ UNCHANGED genFrame

\* ghlib.save: the data file the commands read
GenSave ==
    /\ pc = "built"
    /\ file' = Some(save(issue_set, record[1]))
    /\ pc' = "saved"
    /\ UNCHANGED <<now, issue_set, cmd, result, output>>
    /\ UNCHANGED genFrame

\* one command of generate_data.py, run when the clock reads t
GenCommand(c, t) ==
    /\ pc = "saved"
    /\ \A j \in 1..Len(file[1].issues) :
          /\ file[1].issues[j].created_at[1].t <= t
          /\ file[1].issues[j].closed_at # None => file[1].issues[j].closed_at[1].t <= t
    /\ now' = t
    /\ cmd' = c
    /\ result' = run_command(c, load(file[1]), t)
    /\ output' = IF result'.ok THEN Some(result'.val.datasets) ELSE output
    /\ pc' = "done"
    /\ UNCHANGED <<file, issue_set>>
    /\ UNCHANGED genFrame

GenNext ==
    \/ \E n \in 1..MaxNumber : \E i \in GenIssues(n) : GenAdd(i)
    \/ GenSave
    \/ \E c \in GenCommands : \E d \in 0..MaxDay : GenCommand(c, EndOfDay(d))

SpecGen == GenInit /\ [][GenNext]_vars

----------------------------------------------------------------------------
(* Properties *)

FormatErrors == {"KeyError", "TypeError", "ValueError"}

Reverse(s) == [j \in 1..Len(s) |-> s[Len(s) + 1 - j]]

\* the numbers of the records the data file holds
FileNumbers ==
    IF file = None THEN {}
    ELSE {file[1].issues[j].number : j \in 1..Len(file[1].issues)}

\* a record of the snapshot shows the server's record as it is now
Current(snap, r) ==
    /\ snap.title = r.title
    /\ snap.labels = r.labels
    /\ snap.is_pr = r.is_pr
    /\ snap.created_at = Some(r.created_at)
    /\ snap.closed_at = r.closed_at
    /\ snap.created_by = r.user[1]

\* the label the classification rule gives a re-fetched record r
ExpectedChange(original, r) ==
    IF r.number \notin DictKeys(original) THEN "NEW"
    ELSE IF DictGet(original, r.number).closed_at = None /\ r.closed_at # None THEN "CLOSED"
    ELSE "UPDATED"

(* C1: when update has printed its summary, there is exactly one line per
   re-fetched record, in order, and its label is NEW if the record's number
   was not in the snapshot as loaded, CLOSED if it was there and open and
   the re-fetched record is closed, UPDATED otherwise. *)
C1_ClassifiesRefetchedRecords ==
    (pc = "save" /\ cmd = "update") =>
        /\ Len(summary) = Len(fetched)
        /\ \A j \in 1..Len(summary) :
              /\ summary[j].number = fetched[j].number
              /\ summary[j].change = ExpectedChange(original_issue_set, fetched[j])

(* C2: after the merge, the working snapshot maps the number of every
   fetched record to that record; of several fetched records with one
   number the last fetched is the one kept. *)
C2_LastFetchedWins ==
    pc \in {"merged", "summary", "save"} =>
        \A j \in 1..Len(fetched) :
            (\A k \in (j + 1)..Len(fetched) : fetched[k].number # fetched[j].number)
            => /\ fetched[j].number \in DictKeys(issue_set)
               /\ DictGet(issue_set, fetched[j].number) = fetched[j]

C2_Witness ==
    /\ pc = "merged"
    /\ Len(fetched) = 2
    /\ fetched[1].number = fetched[2].number
    /\ fetched[1] # fetched[2]
    /\ fetched[1].number \in DictKeys(original_issue_set)
    /\ DictGet(original_issue_set, fetched[1].number) # fetched[2]

(* C3: no step of an update run removes a record number: the data file
   keeps every number it held, and the working snapshot holds every number
   of the data file. *)
C3_NeverRemoves ==
    [][cmd = "update" =>
          /\ FileNumbers \subseteq FileNumbers'
          /\ pc' \notin {"idle", "main"} => FileNumbers \subseteq DictKeys(issue_set')]_vars

C3_Witness ==
    /\ pc = "idle"
    /\ result = Ok("update saved")
    /\ \E n \in FileNumbers : remote[n].mtime < DictGet(load(file[1]).val.issues, n).created_at[1]
                              \/ remote[n].updated_at < load(file[1]).val.record[1].last_updated

(* C4: the last_updated an update run saves is the timestamp main() took
   before the run made any request: it is fixed when the command starts,
   with nothing enumerated or fetched yet, does not change during the run,
   and is what the data file holds after the save. *)
C4_WatermarkIsFetchStart ==
    [][/\ (pc = "idle" /\ pc' = "main") =>
              /\ current_dt' = Trunc(now)
              /\ outdated' = <<>> /\ fetched' = <<>>
       /\ (pc # "idle" /\ pc' # "idle") => current_dt' = current_dt
       /\ (pc = "save" /\ cmd = "update" /\ result' = Ok("update saved")) =>
              /\ file' # None
              /\ file'[1].record.last_updated = Some(isoformat(current_dt))]_vars

C4_Witness ==
    /\ pc = "save" /\ cmd = "update"
    /\ record[1].last_updated = current_dt
    /\ Trunc(now) > current_dt

(* C5: in every state, every record of the server whose last modification
   is not later than the last_updated of the data file is in the data file
   and current there. *)
C5_WatermarkGuarantee ==
    file # None =>
        LET snap == load(file[1])
        IN  /\ snap.ok
            /\ \A n \in 1..Len(remote) :
                  remote[n].mtime <= snap.val.record[1].last_updated
                  => /\ n \in DictKeys(snap.val.issues)
                     /\ Current(DictGet(snap.val.issues, n), remote[n])

C5_Witness ==
    /\ pc = "idle"
    /\ result = Ok("update saved")
    /\ \E n \in 1..Len(remote) :
          /\ remote[n].mtime <= load(file[1]).val.record[1].last_updated
          /\ remote[n].mtime > remote[n].created_at + 1
          /\ remote[n].title = "b"

(* C6: merging the batch a second time changes nothing: the snapshot a
   merge has produced is the snapshot a second merge of the same batch
   produces. *)
C6_MergeIdempotent ==
    pc = "merged" => merge_batch(issue_set, fetched) = issue_set

C6_Witness ==
    /\ pc = "merged"
    /\ fetched # <<>>
    /\ issue_set # original_issue_set
    /\ \E j \in 1..Len(fetched) : fetched[j].number \in DictKeys(original_issue_set)
    /\ \E j \in 1..Len(fetched) : fetched[j].number \notin DictKeys(original_issue_set)

(* C7: loading the file a save has just written gives back the snapshot
   that was saved: the same mapping of numbers to records, whatever order
   they were held in, and the same metadata (repo, last_updated, version). *)
C7_RoundTrip ==
    pc = "reloaded" =>
        /\ result.ok
        /\ AsMap(result.val.issues) = AsMap(issue_set)
        /\ result.val.record = record

C7_Witness ==
    /\ pc = "reloaded"
    /\ Len(issue_set) >= 2
    /\ issue_set[1].k > issue_set[2].k
    /\ \E j \in 1..Len(issue_set) : issue_set[j].v.closed_at # None
    /\ \E j \in 1..Len(issue_set) : issue_set[j].v.closed_at = None

(* C8: save writes the records in strictly ascending order of number, and
   writes the same file whatever order the snapshot holds them in. *)
C8_SaveSorted ==
    pc = "saved" =>
        /\ \A j, k \in 1..Len(file[1].issues) :
              j < k => file[1].issues[j].number < file[1].issues[k].number
        /\ file = Some(save(Reverse(issue_set), record[1]))

C8_Witness ==
    /\ pc = "saved"
    /\ Len(issue_set) >= 2
    /\ issue_set[1].k > issue_set[2].k

(* C9: loading a file that lacks record, record.repo, its owner or name,
   or record.last_updated, or that holds a timestamp strptime rejects, ends
   in an error of the format class and returns nothing: neither an issue
   set nor a record. *)
C9_LoadFailsWhole ==
    pc = "loaded damaged" =>
        /\ ~result.ok
        /\ DOMAIN result = {"ok", "err"}
        /\ result.err \in FormatErrors

C9_Witness ==
    /\ pc = "loaded damaged"
    /\ ~result.ok
    /\ result.err = "ValueError"
    /\ "last_updated" \in DOMAIN file[1].record
    /\ file[1].record.last_updated[1].fmt \in ParsedFormats

\* the earliest created_at date of a non-empty snapshot
EarliestDate(d) ==
    CHOOSE e \in {date(d[j].v.created_at[1]) : j \in 1..Len(d)} :
        \A j \in 1..Len(d) : e <= date(d[j].v.created_at[1])

(* C10: get_days over a non-empty snapshot returns the dates from the
   earliest created_at date of its records through the current date, both
   included, ascending, one per day. *)
C10_DaysFromEarliest ==
    (pc = "days" /\ issue_set # <<>>) =>
        /\ result.ok
        /\ result.val = [j \in 1..(date(now) - EarliestDate(issue_set) + 1) |->
                            EarliestDate(issue_set) + j - 1]

\* the first day of the month a date lies in
FirstOfMonth(d) == (d \div DaysPerMonth) * DaysPerMonth

\* the 1st of each month from the month of date s through the month after
\* the month of date e
MonthsThroughNext(s, e) ==
    [k \in 1..((FirstOfMonth(e) - FirstOfMonth(s)) \div DaysPerMonth + 2) |->
        FirstOfMonth(s) + (k - 1) * DaysPerMonth]

(* C11: when the snapshot holds record 1 and it is the earliest record, the
   months of issue-deltas are the 1st of each month, ascending, one per
   month, from the month record 1 was created in through the month after
   the current month. *)
C11_MonthsThroughNextMonth ==
    (pc = "done" /\ cmd = "issue-deltas" /\ IssueSet_contains(issue_set, 1)) =>
        /\ result.ok
        /\ result.val.days = MonthsThroughNext(EarliestDate(issue_set), date(now))

\* the records of the snapshot a series of issue-counts / pull-counts is about
Population(label) ==
    LET all == {issue_set[j].v : j \in 1..Len(issue_set)}
        Labelled(l) == {r \in all : ~r.is_pr /\ \E j \in 1..Len(r.labels) : r.labels[j] = l}
    IN  CASE label = "open issues (total)"   -> {r \in all : ~r.is_pr}
          [] label = "open issues (bug)"     -> Labelled("T: bug")
          [] label = "open issues (docs)"    -> Labelled("T: documentation")
          [] label = "open issues (feature)" -> Labelled("T: enhancement")
          [] label = "open issues (style)"   -> Labelled("T: style")
          [] label = "open PRs"              -> {r \in all : r.is_pr}

\* the records of P open on date d: created on or before d, not closed by d
OpenOn(P, d) ==
    {r \in P : /\ date(r.created_at[1]) <= d
               /\ (r.closed_at = None \/ date(r.closed_at[1]) > d)}

(* C12: in the output of issue-counts and pull-counts, and in the monthly
   counts of issue-deltas, the value of every series at every enumerated
   date d is the number of records of the series' sub-population created on
   or before d and not closed on or before d; a record does not count on
   the day it was closed. *)
C12_OpenCount ==
    /\ (pc = "done" /\ cmd = "issue-deltas" /\ result.ok) =>
        /\ Len(result.val.counts) = Len(result.val.days)
        /\ \A k \in 1..Len(result.val.days) :
              result.val.counts[k] =
                  Cardinality(OpenOn(Population("open issues (total)"),
                                     result.val.days[k]))
    /\ (pc = "done" /\ cmd \in {"issue-counts", "pull-counts"} /\ result.ok) =>
        \A j \in 1..Len(output[1]) :
            /\ Len(output[1][j].data) = Len(result.val.days)
            /\ \A k \in 1..Len(result.val.days) :
                  /\ output[1][j].data[k].x = date_isoformat(result.val.days[k])
                  /\ output[1][j].data[k].y =
                        Cardinality(OpenOn(Population(output[1][j].label),
                                           result.val.days[k]))

C12_Witness ==
    /\ pc = "done" /\ cmd = "issue-counts" /\ result.ok
    /\ Len(output[1]) = 5
    /\ \E k \in 1..(Len(result.val.days) - 1) :
          /\ output[1][1].data[k].y = 2
          /\ output[1][1].data[k + 1].y = 1
          /\ output[1][2].data[k].y = 1
          /\ \E r \in Population("open issues (total)") :
                r.closed_at # None /\ date(r.closed_at[1]) = result.val.days[k + 1]

(* C13: the deltas issue-deltas emits for the monthly open counts c[1..N]
   are N values, the first 0, and the k-th (k >= 2) the signed difference
   c[k] - c[k-1]. *)
C13_DeltaSeries ==
    (pc = "done" /\ cmd = "issue-deltas" /\ result.ok) =>
        LET c     == result.val.counts
            delta == output[1][1].data
        IN  /\ Len(c) >= 1
            /\ Len(delta) = Len(c)
            /\ delta[1].y = 0
            /\ \A k \in 2..Len(c) : delta[k].y = c[k] - c[k - 1]

C13_Witness ==
    /\ pc = "done" /\ cmd = "issue-deltas" /\ result.ok
    /\ Len(result.val.counts) >= 3
    /\ result.val.counts[1] > 0
    /\ output[1][1].data[2].y > 0
    /\ output[1][1].data[3].y < 0

\* the sum of the y values of data[from..to]
RECURSIVE SumY(_, _, _)
SumY(data, from, to) ==
    IF from > to THEN 0 ELSE SumY(data, from, to - 1) + data[to].y

(* C14: the deltas issue-deltas emits for months 2..N sum to the open count
   of month N minus the open count of month 1. *)
C14_DeltaSum ==
    (pc = "done" /\ cmd = "issue-deltas" /\ result.ok) =>
        SumY(output[1][1].data, 2, Len(result.val.counts)) =
            result.val.counts[Len(result.val.counts)] - result.val.counts[1]

C14_Witness ==
    /\ pc = "done" /\ cmd = "issue-deltas" /\ result.ok
    /\ Len(result.val.counts) >= 3
    /\ \E k \in 2..Len(result.val.counts) : output[1][1].data[k].y < 0
    /\ result.val.counts[Len(result.val.counts)] < result.val.counts[1]

(* C15: a command of the report generator run on a data file that holds no
   record ends in KeyError, the lookup of record 1 that day (or month)
   enumeration makes; it returns no series and writes no output. *)
C15_EmptySnapshotFails ==
    (pc = "done" /\ file[1].issues = <<>>) =>
        /\ ~result.ok
        /\ result.err = "KeyError"
        /\ DOMAIN result = {"ok", "err"}
        /\ output = None

C15_Witness ==
    /\ pc = "done"
    /\ cmd \in {"issue-counts", "pull-counts", "issue-closers"}
    /\ file[1].issues = <<>>
    /\ result = Err("KeyError")

\* the value at day k of the series labelled label; 0 when it is not emitted
SeriesValue(label, k) ==
    LET hits == {j \in 1..Len(output[1]) : output[1][j].label = label}
    IN  IF hits = {} THEN 0 ELSE output[1][CHOOSE j \in hits : TRUE].data[k].y

\* the closed records that are no pull requests, closed on or before date d
ClosedIssuesBy(d) ==
    {r \in {issue_set[j].v : j \in 1..Len(issue_set)} :
        ~r.is_pr /\ r.closed_at # None /\ date(r.closed_at[1]) <= d}

(* C16: in the output of issue-closers, on every day, the "{issue-author}"
   series counts exactly the closed non-pull-request records closed by
   their creator, and the series of an actor counts exactly the closed
   non-pull-request records that actor closed and did not create; pull
   requests and open records are in no series, and there is no other
   series. *)
C16_CloserAttribution ==
    (pc = "done" /\ cmd = "issue-closers" /\ result.ok) =>
        /\ \A j \in 1..Len(output[1]) :
              /\ output[1][j].label \in
                    {IssueAuthor} \cup {Some(GenLogins[a]) : a \in 1..Len(GenLogins)}
              /\ \A i \in 1..Len(output[1]) : output[1][i].label = output[1][j].label => i = j
        /\ \A k \in 1..Len(result.val.days) :
              /\ SeriesValue(IssueAuthor, k) =
                    Cardinality({r \in ClosedIssuesBy(result.val.days[k]) :
                                    r.closed_by = Some(r.created_by)})
              /\ \A a \in 1..Len(GenLogins) :
                    SeriesValue(Some(GenLogins[a]), k) =
                        Cardinality({r \in ClosedIssuesBy(result.val.days[k]) :
                                        /\ r.closed_by = Some(GenLogins[a])
                                        /\ r.created_by # GenLogins[a]})

C16_Witness ==
    /\ pc = "done" /\ cmd = "issue-closers" /\ result.ok
    /\ \E k \in 1..Len(result.val.days) :
          /\ SeriesValue(IssueAuthor, k) = 1
          /\ SeriesValue(Some("alice"), k) = 1
          /\ SeriesValue(Some("bob"), k) = 0

(* C17: issue-closers emits a series if and only if it has a nonzero value
   on some day: of "{issue-author}" and the actors who closed a record, the
   series emitted are exactly those with a nonzero day. *)
C17_ZeroSeriesDropped ==
    (pc = "done" /\ cmd = "issue-closers" /\ result.ok) =>
        LET days   == result.val.days
            all    == parse_closing_data_keep_all(
                          cal_closes_over_time(
                              prepare_data_collection(days,
                                  get_closed_issues(get_rid_of_prs(issue_set))),
                              days, get_closed_issues(get_rid_of_prs(issue_set))))
            Emitted == {output[1][j].label : j \in 1..Len(output[1])}
        IN  /\ \A j \in 1..Len(output[1]) :
                  \E k \in 1..Len(output[1][j].data) : output[1][j].data[k].y # 0
            /\ \A g \in 1..Len(all) :
                  (\E k \in 1..Len(all[g].v) : all[g].v[k] # 0) <=> all[g].k \in Emitted

C17_Witness ==
    /\ pc = "done" /\ cmd = "issue-closers" /\ result.ok
    /\ Len(output[1]) = 1
    /\ output[1][1].label = IssueAuthor
    /\ \E j \in 1..Len(issue_set) :
          /\ ~issue_set[j].v.is_pr
          /\ issue_set[j].v.closed_by = Some("bob")
          /\ issue_set[j].v.created_by = "bob"
    /\ \E j \in 1..Len(issue_set) : issue_set[j].v.closed_at = None

(* C18: the data file changes only in the step that ends a run with a save:
   every other step of a run, and a run that ends in a failed request or an
   interruption at any point before the save, leaves the file (records and
   last_updated) as it was before the run. *)
C18_InterruptedRunLeavesFile ==
    [][/\ pc = "idle" => file' = file
       /\ (pc # "idle" /\ ~(/\ pc' = "idle"
                            /\ result'.ok
                            /\ result'.val \in {"fetch saved", "update saved"}))
             => file' = file
       /\ (pc # "idle" /\ pc' = "idle" /\ ~result'.ok) => file' = file]_vars

C18_Witness ==
    /\ pc = "idle"
    /\ result = Err("HTTPError")
    /\ file # None
    /\ \E n \in 1..Len(remote) : n \notin FileNumbers
    /\ \E n \in 1..Len(remote) : n \in FileNumbers /\ remote[n].closed_at # None
                                 /\ \A j \in 1..Len(file[1].issues) :
                                       file[1].issues[j].number = n
                                           => file[1].issues[j].closed_at = None

(* C19: every record of a data file written by a full fetch or an update
   has closed_by set if and only if closed_at is set. *)
C19_ClosedByIffClosedAt ==
    file # None =>
        \A j \in 1..Len(file[1].issues) :
            (file[1].issues[j].closed_by # None) <=> (file[1].issues[j].closed_at # None)

(* C20: a record constructed from a wire-format answer whose author is null
   is constructed, with created_by the unknown-actor name "ghost", in every
   wire shape. *)
C20_NullAuthorIsGhost ==
    (pc = "constructed" /\ remote[1].user = None) =>
        /\ result.ok
        /\ result.val.created_by = "ghost"


\* the closing actor of the answer in this wire shape is absent or null
NoClosingActor(shape, r) ==
    IF shape = "graphql node"
    THEN r.first_closer = None \/ r.first_closer = Some(None)
    ELSE r.closed_by = None

(* C21: a record constructed from a wire-format answer whose closing actor
   is absent or null has closed_by = None, in the REST shapes and in the
   GraphQL shape alike. *)
C21_NullCloserIsNone ==
    (pc = "constructed" /\ result.ok /\ NoClosingActor(cmd, remote[1])) =>
        result.val.closed_by = None


\* the 1st of each month from the month of date s through the month of date e
MonthsThrough(s, e) ==
    [k \in 1..((FirstOfMonth(e) - FirstOfMonth(s)) \div DaysPerMonth + 1) |->
        FirstOfMonth(s) + (k - 1) * DaysPerMonth]

(* C22: months_between(start_date, end_date) with start_date <= end_date
   gives the 1st of every month from start_date's month through end_date's
   month and nothing after it; with start_date > end_date it raises
   ValueError. *)
C22_MonthsBetweenInclusive ==
    pc = "months" =>
        IF cursor <= date(now)
        THEN result = Ok(MonthsThrough(cursor, date(now)))
        ELSE result = Err("ValueError")


(* C23: in the update of download.py at the top of the repository, a
   re-fetched record whose number was in the snapshot as loaded is labelled
   CLOSED exactly when the record as loaded was open and the re-fetched
   record is closed, and UPDATED otherwise. *)
C23_ComparesOriginalRecord ==
    (pc = "save" /\ cmd = "update") =>
        \A j \in 1..Len(summary) :
            LET n == summary[j].number
            IN  IssueSet_contains(original_issue_set, n) =>
                  summary[j].change =
                      IF /\ ~closed(DictGet(original_issue_set, n))
                         /\ closed(DictGet(issue_set, n))
                      THEN "CLOSED" ELSE "UPDATED"


\* every key of the mapping is the number of the record stored under it,
\* and no key occurs twice
KeyIsNumber(d) ==
    /\ \A j \in 1..Len(d) : d[j].v.number = d[j].k
    /\ \A j1, j2 \in 1..Len(d) : d[j1].k = d[j2].k => j1 = j2

(* C24: after any sequence of IssueSet operations (construction from
   records or from another IssueSet, add, extend, __setitem__, __delitem__,
   from_json), every key k of the mapping holds a record whose number is k. *)
C24_KeyIsNumber ==
    KeyIsNumber(issue_set) /\ KeyIsNumber(original_issue_set)


\* the numbers of the records fetched in this run
FetchedNumbers == {fetched[k].number : k \in 1..Len(fetched)}

\* the records a data file holds
FileRecords(f) == {f.issues[j] : j \in 1..Len(f.issues)}

(* C25: the step in which an update run saves leaves every record of the
   data file whose number is not among the fetched records exactly as it
   was, adds or replaces records of fetched numbers only, and leaves the
   repository identifier and the version of the metadata as they were. *)
C25_UpdateFrame ==
    [][(pc = "save" /\ cmd = "update" /\ result' = Ok("update saved")) =>
          /\ \A r \in FileRecords(file[1]) :
                r.number \notin FetchedNumbers => r \in FileRecords(file'[1])
          /\ \A r \in FileRecords(file'[1]) :
                r.number \notin FetchedNumbers => r \in FileRecords(file[1])
          /\ Len(file'[1].issues) = Cardinality(FileNumbers \cup FetchedNumbers)
          /\ file'[1].record.repo = file[1].record.repo
          /\ file'[1].record.version = file[1].record.version]_vars

C25_Witness ==
    /\ pc = "save" /\ cmd = "update"
    /\ \E n \in FileNumbers : n \notin FetchedNumbers
    /\ \E n \in FileNumbers : n \in FetchedNumbers
    /\ file[1].record.last_updated # isoformat(record[1].last_updated)


\* the closes a series labelled label counts up to date d
ClosesOf(label, d) ==
    {r \in ClosedIssuesBy(d) :
        IF label = IssueAuthor THEN r.closed_by = Some(r.created_by)
        ELSE r.closed_by = label /\ Some(r.created_by) # label}

\* the sum of the values the first n emitted series have at day k
RECURSIVE SumSeriesAt(_, _)
SumSeriesAt(k, n) ==
    IF n = 0 THEN 0 ELSE SumSeriesAt(k, n - 1) + output[1][n].data[k].y

(* C26: every series issue-closers emits has exactly one point per
   enumerated day, in the order of the days; its value at day d is the
   number of closed non-pull-request records closed on or before d that the
   series' actor closed and did not create, or, for "{issue-author}", that
   their creator closed; so it never decreases from one day to the next,
   and on each day the values of all series add up to the number of closed
   non-pull-request records closed on or before that day. *)
C26_CloserSeriesCumulative ==
    (pc = "done" /\ cmd = "issue-closers" /\ result.ok) =>
        LET days == result.val.days
        IN  /\ \A j \in 1..Len(output[1]) :
                  LET s == output[1][j]
                  IN  /\ Len(s.data) = Len(days)
                      /\ \A k \in 1..Len(days) :
                            /\ s.data[k].x = date_isoformat(days[k])
                            /\ s.data[k].y = Cardinality(ClosesOf(s.label, days[k]))
                      /\ \A k \in 1..(Len(days) - 1) : s.data[k].y <= s.data[k + 1].y
            /\ \A k \in 1..Len(days) :
                  SumSeriesAt(k, Len(output[1])) = Cardinality(ClosedIssuesBy(days[k]))

C26_Witness ==
    /\ pc = "done" /\ cmd = "issue-closers" /\ result.ok
    /\ Len(output[1]) >= 2
    /\ Len(result.val.days) >= 3
    /\ \E j \in 1..Len(output[1]) :
          /\ output[1][j].data[1].y = 0
          /\ output[1][j].data[Len(result.val.days)].y >= 1
    /\ \E k \in 1..(Len(result.val.days) - 1) :
          /\ SumSeriesAt(k, Len(output[1])) = 1
          /\ SumSeriesAt(k + 1, Len(output[1])) = 2

====
